---- MODULE Spec2Model ----
(***************************************************************************)
(* Batch chart extraction tool.                                            *)
(*   transfer.py : PDF tables -> classifier -> one workbook per PDF        *)
(*   viz_app.py  : consolidated workbook -> lookup / trend / relative trend*)
(* Python strings are sequences of one-character strings.                  *)
(***************************************************************************)
EXTENDS Integers, Sequences, FiniteSets, TLC

VARIABLES
    c_in,        \* classify_table_with_model: its arguments (page_index, page_text, table_preview)
    c_out,       \* classify_table_with_model: its outcome, "none" before the call
    w_titles,    \* workbook writer: the sheet_title of each entry of rate_tables, in order
    w_names,     \* workbook writer: the sheet names written so far (in order of writing)
    p_pc,        \* process_all_pdfs: "scan" | "done" | "aborted"
    p_pdf,       \* process_all_pdfs: index of the PDF being processed
    p_page,      \* process_single_pdf: page_idx of the page being scanned
    p_t,         \* process_single_pdf: number of tables of the page already handled
    rate_tables, \* process_single_pdf: accepted tables of the current PDF
    p_seen,      \* process_single_pdf: number of tables of the current PDF handled so far
    p_last,      \* process_single_pdf: what happened to the table handled last
    p_files,     \* output files written so far, each with its sheet names
    q_df,        \* explorer: the normalized table (sequence of rows)
    q_call,      \* explorer: the last query and its arguments
    q_res        \* explorer: the result of the last query

vars == <<c_in, c_out, w_titles, w_names, p_pc, p_pdf, p_page, p_t, rate_tables,
          p_seen, p_last, p_files, q_df, q_call, q_res>>

c_vars == <<c_in, c_out>>
w_vars == <<w_titles, w_names>>
p_vars == <<p_pc, p_pdf, p_page, p_t, rate_tables, p_seen, p_last, p_files>>
q_vars == <<q_df, q_call, q_res>>

(***************************************************************************)
(* Python values                                                           *)
(***************************************************************************)
\* A Python / JSON value, in one record shape: t is the type tag.
PyNone      == [t |-> "none", b |-> FALSE, s |-> <<>>, n |-> 0]
PyBool(x)   == [t |-> "bool", b |-> x,     s |-> <<>>, n |-> 0]
PyStr(x)    == [t |-> "str",  b |-> FALSE, s |-> x,    n |-> 0]
PyInt(x)    == [t |-> "int",  b |-> FALSE, s |-> <<>>, n |-> x]

\* Python truthiness of a value: None, False, "" and 0 are falsy.
Truthy(v) ==
    CASE v.t = "none" -> FALSE
      [] v.t = "bool" -> v.b
      [] v.t = "str"  -> Len(v.s) > 0
      [] v.t = "int"  -> v.n # 0
      [] OTHER        -> TRUE

Min(a, b) == IF a < b THEN a ELSE b

\* s[:n] for n >= 0
Take(s, n) == SubSeq(s, 1, Min(n, Len(s)))

DigitChars == {"0", "1", "2", "3", "4", "5", "6", "7", "8", "9"}

\* str.isdigit of one character
isdigit(ch) == ch \in DigitChars

\* str.lower on the characters the model uses
lower_char(ch) ==
    CASE ch = "C" -> "c"
      [] ch = "R" -> "r"
      [] ch = "T" -> "t"
      [] ch = "P" -> "p"
      [] ch = "D" -> "d"
      [] OTHER    -> ch

lower(s) == [i \in 1..Len(s) |-> lower_char(s[i])]

\* k in text (substring test)
Contains(text, k) ==
    \E i \in 0..(Len(text) - Len(k)) : SubSeq(text, i + 1, i + Len(k)) = k


Whitespace == {" ", "\t", "\n"}

\* str.strip(): drop leading and trailing whitespace
strip(s) ==
    LET keep == {i \in 1..Len(s) : s[i] \notin Whitespace}
    IN  IF keep = {} THEN <<>>
        ELSE LET lo == CHOOSE i \in keep : \A j \in keep : i <= j
                 hi == CHOOSE i \in keep : \A j \in keep : j <= i
             IN  SubSeq(s, lo, hi)

\* Decimal digits of a natural number, as str(n) / an f-string gives them
DigitOf(d) ==
    CASE d = 0 -> "0" [] d = 1 -> "1" [] d = 2 -> "2" [] d = 3 -> "3" [] d = 4 -> "4"
      [] d = 5 -> "5" [] d = 6 -> "6" [] d = 7 -> "7" [] d = 8 -> "8" [] OTHER -> "9"

RECURSIVE IntToStr(_)
IntToStr(n) == IF n < 10 THEN <<DigitOf(n)>> ELSE IntToStr(n \div 10) \o <<DigitOf(n % 10)>>

(***************************************************************************)
(* transfer.py : the table classifier                                      *)
(***************************************************************************)
\* A table cell as pdfplumber gives it: a string, or None for an absent cell.
StrCell(x) == [isstr |-> TRUE, chars |-> x]
NoneCell   == [isstr |-> FALSE, chars |-> <<>>]

\* A missing key of a JSON object
Absent == [t |-> "absent", b |-> FALSE, s |-> <<>>, n |-> 0]

\* A parsed JSON value: an object with the two keys of the decision (each
\* possibly missing), or something that is not an object.
Dict(irt, st) == [t |-> "dict", is_rate_table |-> irt, sheet_title |-> st]
JList         == [t |-> "list", is_rate_table |-> Absent, sheet_title |-> Absent]
JNull         == [t |-> "none", is_rate_table |-> Absent, sheet_title |-> Absent]

\* dict.get(key): None when the key is missing
dict_get(v) == IF v.t = "absent" THEN PyNone ELSE v

\* What the remote service does with one request
RemoteRaises      == [kind |-> "raise", value |-> JNull]      \* create() raises
RemoteBadJson     == [kind |-> "bad_json", value |-> JNull]   \* json.loads(raw) raises
RemoteJson(v)     == [kind |-> "json", value |-> v]           \* json.loads(raw) = v

\* The outcome of a call: a returned value or a raised exception, with the
\* requests issued to the remote service during the call.
Returned(v, reqs)  == [kind |-> "return", value |-> v, exc |-> "", requests |-> reqs]
Raised(e, reqs)    == [kind |-> "raise", value |-> JNull, exc |-> e, requests |-> reqs]
NotCalled          == [kind |-> "none", value |-> JNull, exc |-> "", requests |-> <<>>]

MinRows == 4
MinCols == 4
MinNumericRows == 2
PageTextLimit == 1500

num_rows(table_preview) == Len(table_preview)

SeqMax(S) == CHOOSE m \in S : \A x \in S : x <= m

num_cols(table_preview) ==
    IF Len(table_preview) > 0
    THEN SeqMax({Len(table_preview[i]) : i \in 1..Len(table_preview)})
    ELSE 0

\* Faulty variant: the gate rejects only tables that are both short and narrow
StructuralReject_both(table_preview) ==
    num_rows(table_preview) < MinRows /\ num_cols(table_preview) < MinCols

StructuralReject(table_preview) ==
    num_rows(table_preview) < MinRows \/ num_cols(table_preview) < MinCols

digit_cells(row) ==
    Cardinality({i \in 1..Len(row) :
        row[i].isstr /\ \E j \in 1..Len(row[i].chars) : isdigit(row[i].chars[j])})

\* digit_cells / total raises ZeroDivisionError when the row has no cells
is_numeric_row_raises(row) == Len(row) = 0

\* (digit_cells / total) >= 0.5, for a row with at least one cell
is_numeric_row(row) == 2 * digit_cells(row) >= Len(row)

\* sum(is_numeric_row(r) for r in table_preview) raises when any row raises
numeric_rows_raise(table_preview) ==
    \E i \in 1..Len(table_preview) : is_numeric_row_raises(table_preview[i])

numeric_row_count(table_preview) ==
    Cardinality({i \in 1..Len(table_preview) : is_numeric_row(table_preview[i])})

KEYWORDS ==
    { <<"c","o","s","t">>,
      <<"r","a","t","e">>,
      <<"p","r","e","m","i","u","m">>,
      <<"w","e","e","k","l","y">>,
      <<"m","o","n","t","h","l","y">>,
      <<"d","e","a","t","h">>,
      <<"t","p","d">>,
      <<"i","n","c","o","m","e"," ","p","r","o","t","e","c","t","i","o","n">>,
      <<"w","a","i","t","i","n","g"," ","p","e","r","i","o","d">>,
      <<"b","e","n","e","f","i","t"," ","p","e","r","i","o","d">>,
      <<"c","o","v","e","r">> }

\* (page_text or "").lower(); page_text is a PyStr or PyNone
text_lower(page_text) == IF Truthy(page_text) THEN lower(page_text.s) ELSE <<>>

hit_keyword(page_text) == \E k \in KEYWORDS : Contains(text_lower(page_text), k)

payload(page_index, page_text, table_preview) ==
    [page_index    |-> page_index,
     page_text     |-> Take(text_lower(page_text), PageTextLimit),
     table_preview |-> table_preview]

\* The remote call and the parse of its answer
call_model(page_index, page_text, table_preview, remote) ==
    LET reqs == <<payload(page_index, page_text, table_preview)>>
    IN  CASE remote.kind = "raise"    -> Raised("APIError", reqs)
          [] remote.kind = "bad_json" -> Raised("JSONDecodeError", reqs)
          [] OTHER                    -> Returned(remote.value, reqs)

RejectDecision == Dict(PyBool(FALSE), PyStr(<<>>))

classify_table_with_model(page_index, page_text, table_preview, remote) ==
    IF StructuralReject(table_preview)
    THEN Returned(RejectDecision, <<>>)
    ELSE IF numeric_rows_raise(table_preview)
    THEN Raised("ZeroDivisionError", <<>>)
    ELSE IF numeric_row_count(table_preview) < MinNumericRows
    THEN Returned(RejectDecision, <<>>)
    ELSE call_model(page_index, page_text, table_preview, remote)


(***************************************************************************)
(* Inputs of the classifier                                                *)
(***************************************************************************)
D(x) == StrCell(<<x>>)

R_empty == <<>>
R_dig4  == <<StrCell(<<"3","5">>), StrCell(<<"0",".","3">>), D("7"), StrCell(<<"$","2">>)>>
R_txt4  == <<D("a"), StrCell(<<"c","a","l","l">>), StrCell(<<>>), D("b")>>
R_half4 == <<D("1"), D("a"), NoneCell, StrCell(<<"2","x">>)>>
R_low5  == <<D("1"), StrCell(<<"x","2">>), NoneCell, D("a"), D("b")>>
R_one   == <<D("7")>>

RowPool == {R_empty, R_dig4, R_txt4, R_half4, R_low5, R_one}

MaxPreviewRows == 4

RECURSIVE SeqsUpTo(_, _)
\* All sequences over S of length at most n
SeqsUpTo(S, n) ==
    IF n = 0 THEN {<<>>}
    ELSE LET shorter == SeqsUpTo(S, n - 1)
         IN  shorter \cup {Append(q, x) : q \in {r \in shorter : Len(r) = n - 1}, x \in S}

PreviewPool == SeqsUpTo(RowPool, MaxPreviewRows)

Txt_cover == PyStr(<<"T","P","D"," ","C","o","v","e","r">>)

PageTextPool == {PyStr(<<>>), Txt_cover, PyStr(<<"h","e","l","l","o">>)}

PageIndexPool == {0, 1}

Title_rates == <<"R","a","t","e","s">>

JsonPool ==
    { Dict(PyBool(TRUE), PyStr(Title_rates)),     \* accepted, with a title
      Dict(PyBool(TRUE), PyStr(<<" ">>)),         \* accepted, blank title
      Dict(PyBool(TRUE), Absent),                 \* accepted, no title key
      Dict(PyBool(FALSE), PyStr(<<>>)),           \* rejected
      Dict(Absent, Absent),                       \* {}
      Dict(PyStr(<<"n","o">>), PyStr(<<>>)),      \* is_rate_table is a string
      Dict(PyBool(TRUE), PyInt(5)),               \* sheet_title is a number
      JList,                                      \* a JSON array
      JNull }                                     \* the JSON value null

RemotePool == {RemoteRaises, RemoteBadJson} \cup {RemoteJson(v) : v \in JsonPool}

NoInput == [page_index |-> 0, page_text |-> PyNone, table_preview |-> <<>>]

C_Init == c_in = NoInput /\ c_out = NotCalled

\* One call of classify_table_with_model on drawn arguments
C_Classify ==
    /\ c_out.kind = "none"
    /\ \E i \in PageIndexPool, txt \in PageTextPool, pv \in PreviewPool, remote \in RemotePool :
         /\ c_in' = [page_index |-> i, page_text |-> txt, table_preview |-> pv]
         /\ c_out' = classify_table_with_model(i, txt, pv, remote)
    /\ UNCHANGED <<w_vars, p_vars, q_vars>>


(***************************************************************************)
(* transfer.py : the workbook writer (sheet names)                         *)
(***************************************************************************)
SheetNameLimit == 31

suffix(k) == <<"_">> \o IntToStr(k)

\* Faulty variant: the collision is resolved once ("if" for "while"), the new name not re-checked
dedup_once(base_name, used_names, name, k) ==
    IF name \notin used_names
    THEN name
    ELSE Take(base_name, SheetNameLimit - Len(suffix(k))) \o suffix(k)

RECURSIVE dedup_loop(_, _, _, _)
\* while name in used_names: name = base_name[:31 - len(suffix)] + suffix; k += 1
dedup_loop(base_name, used_names, name, k) ==
    IF name \notin used_names
    THEN name
    ELSE dedup_loop(base_name, used_names,
                    Take(base_name, SheetNameLimit - Len(suffix(k))) \o suffix(k), k + 1)

\* The name one iteration of the writer's loop gives to a table
sheet_name(sheet_title, used_names) ==
    LET base_name == Take(sheet_title, SheetNameLimit)
    IN  dedup_loop(base_name, used_names, base_name, 1)

Range(f) == {f[i] : i \in DOMAIN f}

RECURSIVE write_sheets(_, _)
\* The sheet names of the whole loop over rate_tables, given the names written so far
write_sheets(titles, names) ==
    IF Len(names) = Len(titles)
    THEN names
    ELSE write_sheets(titles,
                      Append(names, sheet_name(titles[Len(names) + 1], Range(names))))

\* Titles of the writer's inputs
Rep(ch, n) == [i \in 1..n |-> ch]
T31   == Rep("A", 31)                       \* exactly 31 characters
T33   == Rep("A", 31) \o <<"x","y">>        \* truncates to T31
T29_1 == Rep("A", 29) \o <<"_","1">>        \* equals the first suffixed name of T31

WTitlePool == {T31, T33, T29_1, <<"a","b">>, <<"a","b","_","1">>}

MaxSheets == 4
MaxRun    == 11

W_Idle == w_titles = <<>> /\ w_names = <<>>

\* rate_tables gets one more accepted table (before the writer starts)
W_Accept ==
    /\ w_names = <<>>
    /\ \E t \in WTitlePool :
         /\ \/ Len(w_titles) < MaxSheets
            \/ /\ Len(w_titles) < MaxRun
               /\ t = T33
               /\ \A i \in 1..Len(w_titles) : w_titles[i] = T33
         /\ w_titles' = Append(w_titles, t)
    /\ UNCHANGED w_names
    /\ UNCHANGED <<c_vars, p_vars, q_vars>>

\* One iteration of the loop over rate_tables
W_WriteSheet ==
    /\ Len(w_names) < Len(w_titles)
    /\ w_names' = Append(w_names, sheet_name(w_titles[Len(w_names) + 1], Range(w_names)))
    /\ UNCHANGED w_titles
    /\ UNCHANGED <<c_vars, p_vars, q_vars>>


(***************************************************************************)
(* transfer.py : process_single_pdf and process_all_pdfs                   *)
(***************************************************************************)
PreviewRowLimit == 6
PreviewColLimit == 8

\* preview = [row[:8] for row in tbl[:6]]
preview(tbl) == [i \in 1..Min(PreviewRowLimit, Len(tbl)) |-> Take(tbl[i], PreviewColLimit)]

\* f"Rates page {page_idx+1} table {t_idx+1}"
fallback_title(page_idx, t_idx) ==
    <<"R","a","t","e","s"," ","p","a","g","e"," ">> \o IntToStr(page_idx + 1)
        \o <<" ","t","a","b","l","e"," ">> \o IntToStr(t_idx + 1)

\* The body of the loop over the tables of a page, for one table: the next
\* rate_tables, the classifier's outcome, and whether an exception leaves the loop.
table_step(rt, page_idx, t_idx, page_text, tbl, remote) ==
    IF Len(tbl) = 0
    THEN [raised |-> FALSE, rate_tables |-> rt, cls |-> NotCalled]
    ELSE
    LET cls == classify_table_with_model(page_idx, page_text, preview(tbl), remote)
        fb  == fallback_title(page_idx, t_idx)
    IN  IF cls.kind = "raise"
        THEN [raised |-> FALSE, rate_tables |-> rt, cls |-> cls]      \* except Exception: continue
        ELSE IF cls.value.t # "dict"
        THEN [raised |-> TRUE, rate_tables |-> rt, cls |-> cls]       \* cls.get: AttributeError
        ELSE IF ~Truthy(dict_get(cls.value.is_rate_table))
        THEN [raised |-> FALSE, rate_tables |-> rt, cls |-> cls]      \* skip non-rate tables
        ELSE
        LET got       == dict_get(cls.value.sheet_title)
            raw_title == IF Truthy(got) THEN got ELSE PyStr(fb)
        IN  IF raw_title.t # "str"
            THEN [raised |-> TRUE, rate_tables |-> rt, cls |-> cls]   \* raw_title.strip: AttributeError
            ELSE
            LET stripped    == strip(raw_title.s)
                sheet_title == IF Len(stripped) > 0 THEN stripped ELSE fb
            IN  [raised |-> FALSE,
                 rate_tables |-> Append(rt, [sheet_title |-> sheet_title, data |-> tbl]),
                 cls |-> cls]

\* Tables as pdfplumber extracts them
R_wide10 == <<D("a"), D("b"), D("c"), D("d"), D("e"), D("1"), D("2"), D("3"), D("4"), D("5")>>

Tb_empty == <<>>
Tb_small == <<R_dig4, R_dig4, R_dig4>>
Tb_text  == <<R_txt4, R_txt4, R_half4, R_txt4>>
Tb_hole  == <<R_dig4, R_empty, R_dig4, R_dig4>>
Tb_good  == <<R_txt4, R_dig4, R_dig4, R_half4, R_low5>>
Tb_tail  == <<R_txt4, R_txt4, R_txt4, R_txt4, R_txt4, R_dig4, R_dig4>>
Tb_wide  == <<R_wide10, R_wide10, R_wide10, R_wide10>>

TablePool == {Tb_empty, Tb_small, Tb_text, Tb_hole, Tb_good, Tb_tail, Tb_wide}

\* page.extract_text() or "" of the pages of a document
page_text_of(page_idx) == IF page_idx = 0 THEN Txt_cover ELSE PyStr(<<>>)

\* list(Path(INPUT_DIR).glob("*.pdf"))
pdf_files == <<"a", "b">>

MaxPages  == 2
MaxTables == 2

NoTable == [handled |-> FALSE, page |-> 0, t |-> 0, before |-> 0, nonempty |-> FALSE,
            kind |-> "none", value |-> JNull, exc |-> "", nreq |-> 0]

P_Init ==
    /\ p_pc = "idle" /\ p_pdf = 0 /\ p_page = 0 /\ p_t = 0 /\ p_seen = 0
    /\ rate_tables = <<>> /\ p_last = NoTable /\ p_files = <<>>

\* for pdf_path in pdf_files: process_single_pdf opens the next document
P_OpenPdf ==
    /\ p_pc = "idle"
    /\ p_pdf < Len(pdf_files)
    /\ p_pdf' = p_pdf + 1
    /\ p_pc' = "scan"
    /\ p_page' = 0 /\ p_t' = 0 /\ p_seen' = 0
    /\ rate_tables' = <<>>
    /\ p_last' = NoTable
    /\ UNCHANGED p_files
    /\ UNCHANGED <<c_vars, w_vars, q_vars>>

\* One table of the current page is handled
P_Table ==
    /\ p_pc = "scan"
    /\ p_seen < MaxTables
    /\ \E tbl \in TablePool, remote \in RemotePool :
         LET r == table_step(rate_tables, p_page, p_t, page_text_of(p_page), tbl, remote)
         IN  /\ rate_tables' = r.rate_tables
             /\ p_pc' = IF r.raised THEN "aborted" ELSE "scan"
             /\ p_last' = [handled |-> TRUE, page |-> p_page, t |-> p_t,
                           before |-> Len(rate_tables), nonempty |-> Len(tbl) > 0,
                           kind |-> r.cls.kind, value |-> r.cls.value, exc |-> r.cls.exc,
                           nreq |-> Len(r.cls.requests)]
    /\ p_t' = p_t + 1
    /\ p_seen' = p_seen + 1
    /\ UNCHANGED <<p_pdf, p_page, p_files>>
    /\ UNCHANGED <<c_vars, w_vars, q_vars>>

\* The loop over the pages moves to the next page
P_NextPage ==
    /\ p_pc = "scan"
    /\ p_page + 1 < MaxPages
    /\ p_page' = p_page + 1
    /\ p_t' = 0
    /\ UNCHANGED <<p_pc, p_pdf, p_seen, rate_tables, p_last, p_files>>
    /\ UNCHANGED <<c_vars, w_vars, q_vars>>

titles_of(rt) == [i \in 1..Len(rt) |-> rt[i].sheet_title]

\* After the last page: skip the document, or write its workbook
P_ClosePdf ==
    /\ p_pc = "scan"
    /\ p_files' = IF Len(rate_tables) = 0
                  THEN p_files
                  ELSE Append(p_files, [pdf |-> pdf_files[p_pdf],
                                        sheets |-> write_sheets(titles_of(rate_tables), <<>>)])
    /\ p_pc' = "idle"
    /\ UNCHANGED <<p_pdf, p_page, p_t, p_seen, rate_tables, p_last>>
    /\ UNCHANGED <<c_vars, w_vars, q_vars>>

\* process_all_pdfs returns: no document is left (or none was found)
P_Finish ==
    /\ p_pc = "idle"
    /\ p_pc' = "done"
    /\ UNCHANGED <<p_pdf, p_page, p_t, p_seen, rate_tables, p_last, p_files>>
    /\ UNCHANGED <<c_vars, w_vars, q_vars>>


(***************************************************************************)
(* viz_app.py : the query engine                                           *)
(***************************************************************************)
Col_Age           == <<"A","g","e">>
Col_Gender        == <<"G","e","n","d","e","r">>
Col_Occupation    == <<"O","c","c","u","p","a","t","i","o","n">>
Col_Benefit       == <<"B","e","n","e","f","i","t">>
Col_BenefitType   == <<"B","e","n","e","f","i","t","T","y","p","e">>
Col_BenefitPeriod == <<"B","e","n","e","f","i","t","P","e","r","i","o","d">>
Col_WaitingPeriod == <<"W","a","i","t","i","n","g","P","e","r","i","o","d">>

Co_acme  == <<"A","c","m","e"," ","r","a","t","e","s">>
Co_beta  == <<"B","e","t","a"," ","r","a","t","e","s">>
Co_gamma == <<"G","a","m","m","a">>

base_cols == {Col_Age, Col_Gender, Col_Occupation, Col_Benefit, Col_BenefitType,
              Col_BenefitPeriod, Col_WaitingPeriod}

\* [c for c in df.columns if c not in base_cols]
get_company_columns(df) == SelectSeq(df.columns, LAMBDA c : c \notin base_cols)

Rates_suffix == <<" ","r","a","t","e","s">>

RECURSIVE str_remove(_, _)
\* s.replace(old, ""): every occurrence of old removed, left to right
str_remove(s, old) ==
    IF Len(s) < Len(old) THEN s
    ELSE IF SubSeq(s, 1, Len(old)) = old
         THEN str_remove(SubSeq(s, Len(old) + 1, Len(s)), old)
         ELSE <<s[1]>> \o str_remove(Tail(s), old)

\* comp.replace(" rates", "")
display_name(comp) == str_remove(comp, Rates_suffix)

\* pd.isna
isna(v) == v.t = "none"

RECURSIVE parse_digits(_, _)
parse_digits(chars, acc) ==
    IF Len(chars) = 0 THEN acc
    ELSE parse_digits(Tail(chars),
                      10 * acc + (CHOOSE d \in 0..9 : DigitOf(d) = chars[1]))

\* pd.to_numeric(errors="coerce") of one cell: numbers stay, numeric strings
\* are parsed, everything else becomes missing
to_numeric(v) ==
    CASE v.t = "int" -> v
      [] v.t = "str" /\ Len(v.s) > 0 /\ (\A i \in 1..Len(v.s) : isdigit(v.s[i]))
                     -> PyInt(parse_digits(v.s, 0))
      [] OTHER       -> PyNone

HasCol(df, c) == \E i \in 1..Len(df.columns) : df.columns[i] = c

\* filtered = filtered[filtered[col] == value]
where_eq(rows, col, value) == SelectSeq(rows, LAMBDA r : r[col] = value)

NoAvailable == PyStr(<<"n","o"," ","a","v","a","i","l","a","b","l","e">>)

\* Faulty variant: iloc[0] without the dropna
first_any(rows, comp) ==
    IF Len(rows) = 0 THEN PyNone ELSE rows[1][comp]

\* query[comp].dropna().iloc[0], or None when nothing is left
first_valid(rows, comp) ==
    LET valid == SelectSeq(rows, LAMBDA r : ~isna(r[comp]))
    IN  IF Len(valid) = 0 THEN PyNone ELSE valid[1][comp]

build_lookup(df, age, gender, occupation, benefit) ==
    LET q1 == where_eq(df.rows, Col_Age, age)
        q2 == where_eq(q1, Col_Gender, gender)
        q3 == where_eq(q2, Col_Occupation, occupation)
        query == IF HasCol(df, Col_BenefitType)
                 THEN where_eq(q3, Col_BenefitType, benefit) ELSE q3
        company_cols == get_company_columns(df)
    IN  [i \in 1..Len(company_cols) |->
            LET rate == first_valid(query, company_cols[i])
            IN  [Company |-> display_name(company_cols[i]),
                 Display |-> IF isna(rate) THEN NoAvailable ELSE rate]]

\* Faulty variant: the waiting-period filter is left out
filter_rows_no_waiting(df, gender, occupation, benefit, benefit_period, waiting_period) ==
    LET f1 == where_eq(df.rows, Col_Gender, gender)
        f2 == where_eq(f1, Col_Occupation, occupation)
        f3 == IF HasCol(df, Col_BenefitType) THEN where_eq(f2, Col_BenefitType, benefit) ELSE f2
    IN  IF Truthy(benefit_period) /\ HasCol(df, Col_BenefitPeriod)
        THEN where_eq(f3, Col_BenefitPeriod, benefit_period) ELSE f3

\* The filter shared by build_trend and build_relative_trend
filter_rows(df, gender, occupation, benefit, benefit_period, waiting_period) ==
    LET f1 == where_eq(df.rows, Col_Gender, gender)
        f2 == where_eq(f1, Col_Occupation, occupation)
        f3 == IF HasCol(df, Col_BenefitType) THEN where_eq(f2, Col_BenefitType, benefit) ELSE f2
        f4 == IF Truthy(benefit_period) /\ HasCol(df, Col_BenefitPeriod)
              THEN where_eq(f3, Col_BenefitPeriod, benefit_period) ELSE f3
    IN  IF Truthy(waiting_period) /\ HasCol(df, Col_WaitingPeriod)
        THEN where_eq(f4, Col_WaitingPeriod, waiting_period) ELSE f4

InSeq(x, q) == \E i \in 1..Len(q) : q[i] = x

RECURSIVE Flatten(_)
\* pd.concat / melt: the blocks one after the other
Flatten(blocks) == IF Len(blocks) = 0 THEN <<>> ELSE Head(blocks) \o Flatten(Tail(blocks))

build_trend(df, companies, gender, occupation, benefit, benefit_period, waiting_period) ==
    LET filtered  == filter_rows(df, gender, occupation, benefit, benefit_period, waiting_period)
        melt_cols == SelectSeq(get_company_columns(df),
                               LAMBDA c : Len(companies) = 0 \/ InSeq(c, companies))
        missing   == SelectSeq(melt_cols,
                        LAMBDA c : \A i \in 1..Len(filtered) : isna(to_numeric(filtered[i][c])))
        block(c)  == [i \in 1..Len(filtered) |->
                        [Age |-> filtered[i][Col_Age], Company |-> c,
                         Rate |-> to_numeric(filtered[i][c])]]
        melted    == Flatten([j \in 1..Len(melt_cols) |-> block(melt_cols[j])])
        kept      == SelectSeq(melted, LAMBDA r : ~isna(r.Rate))
    IN  IF Len(melt_cols) = 0
        THEN [rows |-> <<>>, missing |-> <<>>, baseline_missing |-> FALSE]
        ELSE [rows |-> [i \in 1..Len(kept) |->
                          [Age |-> kept[i].Age, Company |-> display_name(kept[i].Company),
                           Rate |-> kept[i].Rate]],
              missing |-> missing, baseline_missing |-> FALSE]


RECURSIVE SortedSeq(_)
\* The elements of a finite set of integers in ascending order (a groupby index)
SortedSeq(S) ==
    IF S = {} THEN <<>>
    ELSE LET m == CHOOSE x \in S : \A y \in S : x <= y
         IN  <<m>> \o SortedSeq(S \ {m})

\* Rows of `filtered` left by dropna(subset=["Age", comp]) after the numeric coercion
with_data(filtered, comp) ==
    SelectSeq(filtered, LAMBDA r : ~isna(r[Col_Age]) /\ ~isna(to_numeric(r[comp])))

\* The index of filtered[["Age", comp]].dropna(...).groupby("Age")[comp].mean()
series_ages(filtered, comp) ==
    {with_data(filtered, comp)[i][Col_Age].n : i \in 1..Len(with_data(filtered, comp))}

RECURSIVE SumSeq(_)
SumSeq(q) == IF Len(q) = 0 THEN 0 ELSE Head(q) + SumSeq(Tail(q))

\* The mean of comp at one age, as the exact fraction sum / cnt
series_mean(filtered, comp, age) ==
    LET at   == SelectSeq(with_data(filtered, comp), LAMBDA r : r[Col_Age].n = age)
        vals == [i \in 1..Len(at) |-> to_numeric(at[i][comp]).n]
    IN  [sum |-> SumSeq(vals), cnt |-> Len(vals)]

\* (comp / base) * 100 as the exact fraction num / den; den = 0 is pandas' inf or NaN
ratio_of(comp_mean, base_mean) ==
    [num |-> comp_mean.sum * base_mean.cnt * 100, den |-> comp_mean.cnt * base_mean.sum]

Hundred == [num |-> 100, den |-> 1]

\* Faulty variant: the baseline's rows are not dropped where its value is missing
base_block_all_ages(filtered, base_company) ==
    LET ages == SortedSeq({filtered[i][Col_Age].n :
                              i \in {j \in 1..Len(filtered) : ~isna(filtered[j][Col_Age])}})
    IN  [i \in 1..Len(ages) |-> [Age |-> ages[i], Company |-> base_company, Ratio |-> Hundred]]

\* base_df: the baseline's flat series
base_block(filtered, base_company) ==
    LET ages == SortedSeq(series_ages(filtered, base_company))
    IN  [i \in 1..Len(ages) |-> [Age |-> ages[i], Company |-> base_company, Ratio |-> Hundred]]

\* Faulty variant: a left join on the company's ages instead of the inner join
joined_block_left(filtered, base_company, comp) ==
    LET ages == SortedSeq(series_ages(filtered, comp))
    IN  [i \in 1..Len(ages) |->
            [Age |-> ages[i], Company |-> comp,
             Ratio |-> ratio_of(series_mean(filtered, comp, ages[i]),
                                series_mean(filtered, base_company, ages[i]))]]

\* joined: the inner join of the baseline's and the company's series on Age
joined_block(filtered, base_company, comp) ==
    LET ages == SortedSeq(series_ages(filtered, base_company) \cap series_ages(filtered, comp))
    IN  [i \in 1..Len(ages) |->
            [Age |-> ages[i], Company |-> comp,
             Ratio |-> ratio_of(series_mean(filtered, comp, ages[i]),
                                series_mean(filtered, base_company, ages[i]))]]

\* Faulty variant: the baseline counts as missing only when no row survives the filter
base_series_empty_rows(filtered, base_company) == Len(filtered) = 0

\* base_series.empty
base_series_empty(filtered, base_company) == series_ages(filtered, base_company) = {}

build_relative_trend(df, base_company, compare_companies, gender, occupation, benefit, benefit_period, waiting_period) ==
    IF Len(base_company) = 0 \/ Len(compare_companies) = 0
    THEN [rows |-> <<>>, missing |-> <<>>, baseline_missing |-> FALSE]
    ELSE
    LET filtered == filter_rows(df, gender, occupation, benefit, benefit_period, waiting_period)
        baseline_missing == base_series_empty(filtered, base_company)
        base_rows == base_block(filtered, base_company)
        missing == SelectSeq(compare_companies,
                             LAMBDA c : Len(joined_block(filtered, base_company, c)) = 0)
        comp_rows == Flatten([j \in 1..Len(compare_companies) |->
                                 joined_block(filtered, base_company, compare_companies[j])])
        result == base_rows \o comp_rows
    IN  [rows |-> [i \in 1..Len(result) |->
                      [Age |-> result[i].Age, Company |-> display_name(result[i].Company),
                       Ratio |-> result[i].Ratio]],
         missing |-> missing, baseline_missing |-> baseline_missing]

(***************************************************************************)
(* Inputs of the query engine                                              *)
(***************************************************************************)
V_M     == PyStr(<<"M">>)
V_F     == PyStr(<<"F">>)
V_W     == PyStr(<<"W">>)
V_Death == PyStr(<<"D","e","a","t","h">>)
V_IP    == PyStr(<<"I","P">>)
V_2y    == PyStr(<<"2","y">>)
V_30d   == PyStr(<<"3","0","d">>)
V_x     == PyStr(<<"x">>)
V_s7    == PyStr(<<"7">>)
V_empty == PyStr(<<>>)

MkRow(age, gender, benefit, bp, wp, a, b, g) ==
    (Col_Age :> age) @@ (Col_Gender :> gender) @@ (Col_Occupation :> V_W) @@
    (Col_BenefitType :> benefit) @@ (Col_BenefitPeriod :> bp) @@ (Col_WaitingPeriod :> wp) @@
    (Co_acme :> a) @@ (Co_beta :> b) @@ (Co_gamma :> g)

Row_A == MkRow(PyInt(30), V_M, V_Death, PyNone, PyNone, PyInt(2), PyNone, PyInt(4))
Row_B == MkRow(PyInt(40), V_M, V_Death, PyNone, PyNone, PyInt(4), PyInt(2), V_x)
Row_C == MkRow(PyInt(30), V_M, V_Death, PyNone, PyNone, PyInt(4), PyInt(1), PyNone)
Row_D == MkRow(PyInt(50), V_M, V_Death, PyNone, PyNone, PyNone, PyInt(3), PyNone)
Row_E == MkRow(PyNone,    V_M, V_Death, PyNone, PyNone, PyInt(5), PyInt(5), PyInt(5))
Row_F == MkRow(PyInt(40), V_F, V_Death, PyNone, PyNone, PyInt(9), PyInt(9), PyInt(9))
Row_G == MkRow(PyInt(40), V_M, V_IP,    V_2y,   V_30d,  PyNone,   V_s7,     PyNone)
Row_H == MkRow(PyInt(40), V_M, V_IP,    V_2y,   PyNone, V_x,      PyInt(0), PyNone)

DfRowPool == {Row_A, Row_B, Row_C, Row_D, Row_E, Row_F, Row_G, Row_H}

DfColumns == <<Col_Age, Col_Gender, Col_Occupation, Col_BenefitType, Col_BenefitPeriod,
               Col_WaitingPeriod, Co_acme, Co_beta, Co_gamma>>

MaxDfRows == 2

\* A workbook without the two income-protection columns
DfColumnsShort == <<Col_Age, Col_Gender, Col_Occupation, Col_BenefitType,
                    Co_acme, Co_beta, Co_gamma>>

Restrict(row, cols) == [c \in Range(cols) |-> row[c]]

DfPool ==
    {[columns |-> cols, rows |-> [i \in 1..Len(rs) |-> Restrict(rs[i], cols)]] :
        cols \in {DfColumns, DfColumnsShort}, rs \in SeqsUpTo(DfRowPool, MaxDfRows)}

NoCall == [op |-> "none", age |-> PyNone, gender |-> PyNone, occupation |-> PyNone,
           benefit |-> PyNone, benefit_period |-> PyNone, waiting_period |-> PyNone,
           companies |-> <<>>, base_company |-> <<>>]
NoResult == [rows |-> <<>>, missing |-> <<>>, baseline_missing |-> FALSE]

\* No workbook loaded
Q_Idle == q_df = [columns |-> DfColumns, rows |-> <<>>] /\ q_call = NoCall /\ q_res = NoResult

\* load_data: the table is loaded once and never changes
Q_Init == q_df \in DfPool /\ q_call = NoCall /\ q_res = NoResult

AgeArgs     == {PyInt(30), PyInt(40)}
GenderArgs  == {V_M, V_F}
BenefitArgs == {V_Death, V_IP}
PeriodArgs  == {<<V_empty, V_empty>>, <<V_2y, V_30d>>}

\* What a multiselect over `options` can return: the chosen options, in the order chosen
RECURSIVE Picks(_)
Picks(options) ==
    {<<>>} \cup UNION {{<<c>> \o rest : rest \in Picks(options \ {c})} : c \in options}

Q_Lookup ==
    /\ q_call.op = "none"
    /\ \E age \in AgeArgs, gender \in GenderArgs, benefit \in BenefitArgs :
           /\ q_call' = [NoCall EXCEPT !.op = "lookup", !.age = age, !.gender = gender,
                                       !.occupation = V_W, !.benefit = benefit]
           /\ q_res' = [NoResult EXCEPT !.rows = build_lookup(q_df, age, gender, V_W, benefit)]
           /\ UNCHANGED q_df
    /\ UNCHANGED <<c_vars, w_vars, p_vars>>

Q_Trend ==
    /\ q_call.op = "none"
    /\ \E companies \in Picks(Range(get_company_columns(q_df))),
          benefit \in BenefitArgs, per \in PeriodArgs :
           /\ q_call' = [NoCall EXCEPT !.op = "trend", !.gender = V_M, !.occupation = V_W,
                                       !.benefit = benefit, !.benefit_period = per[1],
                                       !.waiting_period = per[2], !.companies = companies]
           /\ q_res' = build_trend(q_df, companies, V_M, V_W, benefit, per[1], per[2])
           /\ UNCHANGED q_df
    /\ UNCHANGED <<c_vars, w_vars, p_vars>>

Q_Relative ==
    /\ q_call.op = "none"
    /\ \E base \in Range(get_company_columns(q_df)), benefit \in BenefitArgs, per \in PeriodArgs :
         \E compare \in Picks(Range(get_company_columns(q_df)) \ {base}) :
           /\ q_call' = [NoCall EXCEPT !.op = "relative", !.gender = V_M, !.occupation = V_W,
                                       !.benefit = benefit, !.benefit_period = per[1],
                                       !.waiting_period = per[2], !.companies = compare,
                                       !.base_company = base]
           /\ q_res' = build_relative_trend(q_df, base, compare, V_M, V_W, benefit, per[1], per[2])
           /\ UNCHANGED q_df
    /\ UNCHANGED <<c_vars, w_vars, p_vars>>


(***************************************************************************)
(* Specifications                                                          *)
(***************************************************************************)
\* process_all_pdfs: the extraction-and-classification pipeline
Init == C_Init /\ W_Idle /\ P_Init /\ Q_Idle

Next == P_OpenPdf \/ P_Table \/ P_NextPage \/ P_ClosePdf \/ P_Finish

Spec == Init /\ [][Next]_vars

\* classify_table_with_model on its own
SpecClassify == Init /\ [][C_Classify]_vars

\* The sheet-name loop of process_single_pdf on its own
WriterNext == W_Accept \/ W_WriteSheet

SpecWriter == Init /\ [][WriterNext]_vars

\* The query engine over one loaded workbook: each behaviour is one recomputation
ExplorerInit == C_Init /\ W_Idle /\ P_Init /\ Q_Init

ExplorerNext == Q_Lookup \/ Q_Trend \/ Q_Relative

SpecExplorer == ExplorerInit /\ [][ExplorerNext]_vars


(***************************************************************************)
(* Properties of the classifier (SpecClassify)                             *)
(***************************************************************************)
Called == c_out.kind # "none"

\* The preview has fewer than 4 rows, or no row of at least 4 cells
ShortOrNarrow(pv) == Len(pv) < 4 \/ \A i \in 1..Len(pv) : Len(pv[i]) < 4

IsRejection(out) ==
    /\ out.kind = "return"
    /\ out.value.t = "dict"
    /\ out.value.is_rate_table = PyBool(FALSE)
    /\ out.value.sheet_title = PyStr(<<>>)

\* C1: a preview with fewer than 4 rows or whose longest row has fewer than 4
\* cells (the empty preview included) is answered is_rate_table = false with
\* sheet_title = "", and no remote request is issued.
C1_StructuralGate ==
    (Called /\ ShortOrNarrow(c_in.table_preview))
        => (IsRejection(c_out) /\ c_out.requests = <<>>)

\* A preview of at least 4 rows, all narrower than 4 cells, two of them with digits
C1_Witness ==
    /\ Called
    /\ Len(c_in.table_preview) >= 4
    /\ \A i \in 1..Len(c_in.table_preview) : Len(c_in.table_preview[i]) < 4
    /\ \E i, j \in 1..Len(c_in.table_preview) :
          i # j /\ c_in.table_preview[i] = R_one /\ c_in.table_preview[j] = R_one
    /\ IsRejection(c_out)

\* A row at least half of whose cells hold a digit; a row without cells is
\* counted too, so that fewer rows cannot qualify under any other reading
HalfDigits(row) ==
    2 * Cardinality({i \in 1..Len(row) :
            row[i].isstr /\ \E j \in 1..Len(row[i].chars) : row[i].chars[j] \in DigitChars})
        >= Len(row)

\* C2: a preview that passes the structural gate but has fewer than 2 rows
\* with at least half of their cells holding a digit is answered
\* is_rate_table = false, and no remote request is issued; rows of differing
\* lengths, absent cells and rows without cells included.
C2_NumericGate ==
    (/\ Called
     /\ ~ShortOrNarrow(c_in.table_preview)
     /\ Cardinality({i \in 1..Len(c_in.table_preview) : HalfDigits(c_in.table_preview[i])}) < 2)
        => (IsRejection(c_out) /\ c_out.requests = <<>>)

(***************************************************************************)
(* Properties of the workbook writer (SpecWriter)                          *)
(***************************************************************************)
\* C3: the sheet names given to the accepted tables of one document are
\* pairwise distinct and each at most 31 characters long.
C3_SheetNames ==
    /\ \A i, j \in 1..Len(w_names) : i # j => w_names[i] # w_names[j]
    /\ \A i \in 1..Len(w_names) : Len(w_names[i]) <= 31

\* All sheets written for: a 31-character title, a longer title with the same
\* 31-character prefix, then a title equal to the suffixed name just generated
C3_Witness ==
    /\ Len(w_titles) >= 3
    /\ Len(w_names) = Len(w_titles)
    /\ w_titles[1] = T31 /\ w_titles[2] = T33 /\ w_titles[3] = T29_1
    /\ w_names[2] = T29_1


(***************************************************************************)
(* Properties of the pipeline (Spec)                                       *)
(***************************************************************************)
\* A decision object as the classifier's contract describes it: an object
\* whose is_rate_table is a boolean and whose sheet_title, when given, is a string
WellFormedDecision(v) ==
    /\ v.t = "dict"
    /\ v.is_rate_table.t = "bool"
    /\ v.sheet_title.t \in {"str", "none", "absent"}

\* The remote classification of the table handled last failed: a request was
\* issued and it raised, or its answer did not parse, or it parsed to something
\* that is no well-formed decision object
RemoteFailed ==
    /\ p_last.handled
    /\ p_last.nreq >= 1
    /\ \/ p_last.kind = "raise"
       \/ (p_last.kind = "return" /\ ~WellFormedDecision(p_last.value))

\* C4: when the remote classification of a table fails for any reason, the
\* table is not added to the accepted list, the request is not retried, and the
\* run is not aborted.
C4_FailureIsRejection ==
    RemoteFailed =>
        /\ Len(rate_tables) = p_last.before
        /\ p_last.nreq = 1
        /\ p_pc # "aborted"

\* The current document has been left (normally or by an exception)
PdfLeft == p_pdf >= 1 /\ p_pc \in {"idle", "done", "aborted"}

HasFile(name) == \E i \in 1..Len(p_files) : p_files[i].pdf = name

\* C5: when no table of a document is accepted, no output file is written for
\* it and processing continues with the next document.
C5_NoTablesNoFile ==
    (PdfLeft /\ Len(rate_tables) = 0)
        => (~HasFile(pdf_files[p_pdf]) /\ p_pc # "aborted")


(***************************************************************************)
(* Properties of the query engine (SpecExplorer)                           *)
(***************************************************************************)
Rows == q_df.rows

\* Row k of the table passes the filters of the last trend / relative-trend call
Q_Matches(k) ==
    /\ Rows[k][Col_Gender] = q_call.gender
    /\ Rows[k][Col_Occupation] = q_call.occupation
    /\ Rows[k][Col_BenefitType] = q_call.benefit
    /\ (q_call.benefit_period.s # <<>> /\ Col_BenefitPeriod \in Range(q_df.columns))
          => Rows[k][Col_BenefitPeriod] = q_call.benefit_period
    /\ (q_call.waiting_period.s # <<>> /\ Col_WaitingPeriod \in Range(q_df.columns))
          => Rows[k][Col_WaitingPeriod] = q_call.waiting_period

\* The cell is a number or a string of decimal digits
NumericCell(v) ==
    \/ v.t = "int"
    \/ v.t = "str" /\ v.s # <<>> /\ \A i \in 1..Len(v.s) : v.s[i] \in DigitChars

\* Rows that pass the filters and hold a numeric value for company c
Q_DataRows(c) == {k \in 1..Len(Rows) : Q_Matches(k) /\ NumericCell(Rows[k][c])}

\* Ages at which company c has a value after filtering
Q_Ages(c) == {Rows[k][Col_Age].n : k \in {j \in Q_DataRows(c) : Rows[j][Col_Age].t = "int"}}

\* Ages of the result rows shown for company c
ResultAges(c) ==
    {q_res.rows[i].Age : i \in {j \in 1..Len(q_res.rows) : q_res.rows[j].Company = display_name(c)}}

BaselineFlat ==
    /\ \A a \in Q_Ages(q_call.base_company) :
          \E i \in 1..Len(q_res.rows) :
              q_res.rows[i] = [Age |-> a, Company |-> display_name(q_call.base_company),
                               Ratio |-> [num |-> 100, den |-> 1]]
    /\ \A i \in 1..Len(q_res.rows) :
          q_res.rows[i].Company = display_name(q_call.base_company)
              => /\ q_res.rows[i].Age \in Q_Ages(q_call.base_company)
                 /\ q_res.rows[i].Ratio = [num |-> 100, den |-> 1]

\* C6 as stated: in every result of build_relative_trend the baseline has a row
\* with Ratio exactly 100 at every age where it has a value, and no other row.
C6_BaselineFlatAlways == q_call.op = "relative" => BaselineFlat

\* C6, amended: the same when at least one compare company is supplied; with
\* none supplied the result has no rows at all.
C6_BaselineFlat ==
    q_call.op = "relative" =>
        IF q_call.companies # <<>> THEN BaselineFlat ELSE q_res.rows = <<>>

\* A relative trend with a compare company where the baseline has a value at
\* one age and a filtered row without a baseline value at another age
C6_Witness ==
    /\ q_call.op = "relative"
    /\ q_call.companies # <<>>
    /\ Q_Ages(q_call.base_company) # {}
    /\ \E k \in 1..Len(Rows) :
          /\ Q_Matches(k)
          /\ Rows[k][Col_Age].t = "int"
          /\ Rows[k][Col_Age].n \notin Q_Ages(q_call.base_company)
    /\ \E i \in 1..Len(q_res.rows) :
          q_res.rows[i].Company = display_name(q_call.base_company)

\* C7: for every compare company the ages of its ratio rows are exactly the
\* ages where both the baseline and the company have a value, and the company
\* is in the missing list exactly when there is no such age.
C7_Intersection ==
    q_call.op = "relative" =>
        /\ \A j \in 1..Len(q_call.companies) :
              LET c      == q_call.companies[j]
                  common == Q_Ages(q_call.base_company) \cap Q_Ages(c)
              IN  /\ ResultAges(c) = common
                  /\ InSeq(c, q_res.missing) <=> common = {}
        /\ \A m \in 1..Len(q_res.missing) : InSeq(q_res.missing[m], q_call.companies)

\* One compare company has values only at ages absent from the baseline (no
\* rows, listed as missing), another shares an age with it (rows, not listed)
C7_Witness ==
    /\ q_call.op = "relative"
    /\ \E c \in Range(q_call.companies) :
          /\ Q_Ages(c) # {}
          /\ Q_Ages(c) \cap Q_Ages(q_call.base_company) = {}
          /\ ResultAges(c) = {}
          /\ InSeq(c, q_res.missing)
    /\ \E c \in Range(q_call.companies) :
          /\ ResultAges(c) # {}
          /\ ~InSeq(c, q_res.missing)

\* No row that passes the filters holds a value for the baseline
NoBaselineData == Q_DataRows(q_call.base_company) = {}

\* C8 as stated: without baseline data build_relative_trend returns
\* baseline_missing = true and an empty series, whatever compare companies are given.
C8_BaselineMissingAlways ==
    (q_call.op = "relative" /\ NoBaselineData)
        => (q_res.baseline_missing /\ q_res.rows = <<>>)

\* C8, amended: without baseline data the series is empty, and baseline_missing
\* is true exactly when at least one compare company is supplied.
C8_BaselineMissing ==
    (q_call.op = "relative" /\ NoBaselineData)
        => /\ q_res.rows = <<>>
           /\ q_res.baseline_missing <=> q_call.companies # <<>>

\* No baseline data, while a supplied compare company does have data
C8_Witness ==
    /\ q_call.op = "relative"
    /\ NoBaselineData
    /\ \E c \in Range(q_call.companies) : Q_Ages(c) # {}
    /\ q_res.baseline_missing


\* Row k of the table matches the four fields of the last point lookup
L_Matches(k) ==
    /\ Rows[k][Col_Age] = q_call.age
    /\ Rows[k][Col_Gender] = q_call.gender
    /\ Rows[k][Col_Occupation] = q_call.occupation
    /\ Rows[k][Col_BenefitType] = q_call.benefit

\* Matching rows with a non-missing value for company c
L_Valid(c) == {k \in 1..Len(Rows) : L_Matches(k) /\ Rows[k][c].t # "none"}

Sentinel == PyStr(<<"n","o"," ","a","v","a","i","l","a","b","l","e">>)

CompanyCols == SelectSeq(q_df.columns, LAMBDA c : c \in {Co_acme, Co_beta, Co_gamma})

\* C9: build_lookup returns one row per company column; its value is the first
\* non-missing value of that column among the matching rows, in table order,
\* and the sentinel "no available" exactly when there is none.
C9_Lookup ==
    q_call.op = "lookup" =>
        /\ Len(q_res.rows) = Len(CompanyCols)
        /\ \A i \in 1..Len(CompanyCols) :
              LET c == CompanyCols[i]
              IN  /\ q_res.rows[i].Company = display_name(c)
                  /\ (L_Valid(c) = {}) <=> (q_res.rows[i].Display = Sentinel)
                  /\ L_Valid(c) # {} =>
                        \E k \in L_Valid(c) :
                            /\ \A m \in L_Valid(c) : k <= m
                            /\ q_res.rows[i].Display = Rows[k][c]

\* Two matching rows: one company has no value in the first and one in the
\* second, another has two different values, a third has none
C9_Witness ==
    /\ q_call.op = "lookup"
    /\ Len(q_res.rows) = 3
    /\ \E c \in Range(CompanyCols) :
          \E k \in L_Valid(c) : \E m \in 1..Len(Rows) :
              m < k /\ L_Matches(m) /\ Rows[m][c].t = "none"
    /\ \E c \in Range(CompanyCols) :
          \E k, m \in L_Valid(c) : k < m /\ Rows[k][c] # Rows[m][c]
    /\ \E i \in 1..Len(q_res.rows) : q_res.rows[i].Display = Sentinel

\* Number of (Age, Company, Rate) tuples emitted for company c
TupleCount(c) ==
    Cardinality({i \in 1..Len(q_res.rows) : q_res.rows[i].Company = display_name(c)})

\* Every emitted tuple is a numeric cell of a filtered row, one tuple per cell
TuplesAreCells(selected) ==
    /\ \A c \in Range(CompanyCols) :
          TupleCount(c) = IF c \in selected THEN Cardinality(Q_DataRows(c)) ELSE 0
    /\ \A i \in 1..Len(q_res.rows) :
          \E c \in selected : \E k \in Q_DataRows(c) :
              /\ q_res.rows[i].Company = display_name(c)
              /\ q_res.rows[i].Age = Rows[k][Col_Age]
              /\ q_res.rows[i].Rate = to_numeric(Rows[k][c])

MissingAreEmpty(selected) ==
    \A c \in Range(CompanyCols) :
        InSeq(c, q_res.missing) <=> (c \in selected /\ Q_DataRows(c) = {})

\* C10 as stated: build_trend emits tuples only for the company columns the
\* caller selected, one per numeric cell of the filtered rows, and the missing
\* list holds exactly the selected companies without any.
C10_TrendSelectedOnly ==
    q_call.op = "trend" =>
        /\ TuplesAreCells(Range(q_call.companies))
        /\ MissingAreEmpty(Range(q_call.companies))

\* An empty selection stands for every company column
EffectiveSelection ==
    IF q_call.companies = <<>> THEN Range(CompanyCols) ELSE Range(q_call.companies)

\* C10, amended: the same, where an empty selection selects every company column.
C10_Trend ==
    q_call.op = "trend" =>
        /\ TuplesAreCells(EffectiveSelection)
        /\ MissingAreEmpty(EffectiveSelection)

\* A selection with a company that has data, a company that has none, and an
\* unselected company that has data
C10_Witness ==
    /\ q_call.op = "trend"
    /\ q_call.companies # <<>>
    /\ \E c \in Range(q_call.companies) : TupleCount(c) > 0
    /\ \E c \in Range(q_call.companies) : InSeq(c, q_res.missing) /\ TupleCount(c) = 0
    /\ \E c \in Range(CompanyCols) \ Range(q_call.companies) : Q_DataRows(c) # {}

(***************************************************************************)
(* The keyword signal (SpecClassify)                                       *)
(***************************************************************************)
\* A row with at least one cell, at least half of whose cells hold a digit
DenseRow(row) == Len(row) > 0 /\ HalfDigits(row)

\* The preview passes the structural gate and has at least 2 numeric rows
PassesBothGates(pv) ==
    /\ ~ShortOrNarrow(pv)
    /\ Cardinality({i \in 1..Len(pv) : DenseRow(pv[i])}) >= 2

\* C11: for a preview that passes the structural and the numeric-density gate
\* exactly one remote request is issued, whether or not the page text holds a
\* rate keyword.
C11_OneRequest ==
    (Called /\ PassesBothGates(c_in.table_preview)) => Len(c_out.requests) = 1

====
